---- MODULE Spec2Model ----
(***************************************************************************)
(* Terminal expense tracker: a Bubble Tea model kept in sync with the      *)
(* workbook data.xlsx.  The model holds a Snapshot (expenses, stonks,      *)
(* watchList, totalExpenses); commands run as background tasks (file       *)
(* watchers, write-then-reload tasks, edit forms) and hand their result    *)
(* back as one message that Update handles.                                *)
(***************************************************************************)
EXTENDS Bags, FiniteSets, Integers, Sequences, TLC

\* time.Sleep(500 * time.Millisecond), in milliseconds
D == 500
\* resolution of the model's clock, in milliseconds
TickMs == 250
\* what happens to the program in one run: keys that open a form, forms
\* submitted or aborted, saves by other processes, calls that fail
MaxInputs == 3

(***************************************************************************)
(* The workbook.  A sheet is a sequence of rows, row 1 being the header;   *)
(* a row is a sequence of cells; a cell holds a number or a text.          *)
(***************************************************************************)
Num(n) == [isNum |-> TRUE, s |-> "", n |-> n]
Text(t) == [isNum |-> FALSE, s |-> t, n |-> 0]

\* strconv.ParseFloat with the error dropped: 0 for a text that is no number
ParseFloat(c) == IF c.isNum THEN c.n ELSE 0

Max(a, b) == IF a >= b THEN a ELSE b

Min(a, b) == IF a <= b THEN a ELSE b

NoSnapshot == [expenses |-> <<>>, stonks |-> <<>>, watchList |-> <<>>, totalExpenses |-> 0]

Expense(name, amt) == [Name |-> name, Amount |-> amt]

Stonk(sym, chg, cmt, ext) == [Symbol |-> sym, Change |-> chg, Comment |-> cmt, Extra |-> ext]

WatchItem(sym, qty, owned) == [Symbol |-> sym, Qty |-> qty, Owned |-> owned]

\* rows[1:] of the sheet, as the loops "for i := 1; i < len(rows); i++" see it
DataRows(rows) == SubSeq(rows, 2, Len(rows))

readExpenses(rows) ==
  LET ok == SelectSeq(DataRows(rows), LAMBDA line : Len(line) >= 2)
  IN  [i \in 1..Len(ok) |-> Expense(ok[i][1].s, ParseFloat(ok[i][2]))]

readStonks(rows) ==
  LET ok == SelectSeq(DataRows(rows), LAMBDA line : Len(line) >= 4)
  IN  [i \in 1..Len(ok) |->
         Stonk(ok[i][1].s, ParseFloat(ok[i][2]), ok[i][3].s, ParseFloat(ok[i][4]))]

\* a reader that gives up at the first row with fewer than 3 cells
readWatchList_StopAtShort(rows) ==
  LET data  == DataRows(rows)
      short == {i \in 1..Len(data) : Len(data[i]) < 3}
      n     == IF short = {} THEN Len(data)
               ELSE (CHOOSE i \in short : \A j \in short : i <= j) - 1
      ok    == SubSeq(data, 1, n)
  IN  [i \in 1..Len(ok) |-> WatchItem(ok[i][1].s, ok[i][2].s, ok[i][3].s = "Yes")]

readWatchList(rows) ==
  LET ok == SelectSeq(DataRows(rows), LAMBDA line : Len(line) >= 3)
  IN  [i \in 1..Len(ok) |-> WatchItem(ok[i][1].s, ok[i][2].s, ok[i][3].s = "Yes")]

\* the value of "=SUM(B3:B9)": the numeric cells of column B in rows 3..9
RECURSIVE SumB(_, _, _)
SumB(rows, from, to) ==
  IF from > to \/ from > Len(rows) THEN 0
  ELSE (IF Len(rows[from]) >= 2 /\ rows[from][2].isNum THEN rows[from][2].n ELSE 0)
       + SumB(rows, from + 1, to)

\* readExcelData on a workbook that opened: the message it returns
readExcelData(doc) ==
  [expenses      |-> readExpenses(doc.Expenses),
   stonks        |-> readStonks(doc.Stonks),
   watchList     |-> readWatchList(doc.WatchList),
   totalExpenses |-> SumB(doc.Expenses, 3, 9)]

\* f.SetCellValue(sheet, <col><row>, v): the sheet grows to hold the cell
SetCellValue(rows, row, col, v) ==
  LET grown == [r \in 1..Max(Len(rows), row) |-> IF r <= Len(rows) THEN rows[r] ELSE <<>>]
      line  == grown[row]
      wide  == [c \in 1..Max(Len(line), col) |-> IF c <= Len(line) THEN line[c] ELSE Text("")]
  IN  [grown EXCEPT ![row] = [wide EXCEPT ![col] = v]]

RECURSIVE writeExpenses(_, _, _)
writeExpenses(rows, expenses, i) ==
  IF i > Len(expenses) THEN rows
  ELSE LET row == i + 1
           a   == SetCellValue(rows, row, 1, Text(expenses[i].Name))
           b   == SetCellValue(a, row, 2, Num(expenses[i].Amount))
       IN  writeExpenses(b, expenses, i + 1)

RECURSIVE writeStonks(_, _, _)
writeStonks(rows, stonks, i) ==
  IF i > Len(stonks) THEN rows
  ELSE LET row == i + 1
           a   == SetCellValue(rows, row, 1, Text(stonks[i].Symbol))
           b   == SetCellValue(a, row, 2, Num(stonks[i].Change))
           c   == SetCellValue(b, row, 3, Text(stonks[i].Comment))
           d   == SetCellValue(c, row, 4, Num(stonks[i].Extra))
       IN  writeStonks(d, stonks, i + 1)

RECURSIVE writeWatchList(_, _, _)
writeWatchList(rows, watchList, i) ==
  IF i > Len(watchList) THEN rows
  ELSE LET row == i + 1
           a   == SetCellValue(rows, row, 1, Text(watchList[i].Symbol))
           b   == SetCellValue(a, row, 2, Text(watchList[i].Qty))
           c   == SetCellValue(b, row, 3, Text(IF watchList[i].Owned THEN "Yes" ELSE "No"))
       IN  writeWatchList(c, watchList, i + 1)

\* writeExcelData on the workbook as it was opened: the workbook f.Save() stores
writeExcelData(doc, expenses, stonks, watchList) ==
  [Expenses  |-> writeExpenses(doc.Expenses, expenses, 1),
   Stonks    |-> writeStonks(doc.Stonks, stonks, 1),
   WatchList |-> writeWatchList(doc.WatchList, watchList, 1)]

(***************************************************************************)
(* The workbooks of the runs: a header row and data rows in each sheet.    *)
(***************************************************************************)
ExpensesHeader == <<Text("Name"), Text("Amount")>>

StonksHeader == <<Text("Symbol"), Text("Change"), Text("Comment"), Text("Extra")>>

WatchListHeader == <<Text("Symbol"), Text("Qty"), Text("Owned")>>

Workbook(expenseRows) ==
  [Expenses  |-> <<ExpensesHeader>> \o expenseRows,
   Stonks    |-> <<StonksHeader, <<Text("ACME"), Num(3), Text("hold"), Num(7)>> >>,
   WatchList |-> <<WatchListHeader, <<Text("TLA"), Text("10"), Text("Yes")>> >>]

RentRow == <<Text("Rent"), Num(1000)>>

FoodRow == <<Text("Food"), Num(200)>>

\* the workbooks the program may find at startup
InitDocs == {Workbook(<<RentRow>>)}

\* the expenses a user may type into a form
Drafts == {Expense("Food", 250)}

\* what a save by another process may leave in the workbook
ExtDocs(doc) ==
  LET rows == doc.Expenses
  IN  {[doc EXCEPT !.Expenses = Append(rows, FoodRow)]}
      \cup {[doc EXCEPT !.Expenses = SubSeq(rows, 1, Len(rows) - 1)] :
          x \in IF Len(rows) >= 2 THEN {0} ELSE {}}

(***************************************************************************)
(* State.                                                                  *)
(***************************************************************************)
VARIABLES
  m,         \* the Bubble Tea model
  doc,       \* data.xlsx as stored
  running,   \* "run", "quit" after tea.Quit, "panic" after a runtime panic
  watchers,  \* bag of watchExcelCmd tasks
  writers,   \* bag of writeExcelCmd tasks
  forms,     \* bag of edit forms waiting for the user
  msgs,      \* bag of messages returned by commands and not yet handled
  sinceEv,   \* ms since the last raw write event on the file, at most D
  signals,   \* watchers woken by the current burst of raw events, at most 2
  extCount,  \* saves by other processes so far
  faults,    \* failures so far
  loaded     \* the Snapshot of the last read installed in the model

vars == <<m, doc, running, watchers, writers, forms, msgs, sinceEv, signals, extCount, faults, loaded>>

NoErr == "nil"

Snap(mm) ==
  [expenses      |-> mm.expenses,
   stonks        |-> mm.stonks,
   watchList     |-> mm.watchList,
   totalExpenses |-> mm.totalExpenses]

Add(B, x) == B (+) SetToBag({x})

Del(B, x) == B (-) SetToBag({x})

\* a bag with every element x replaced by F(x)
RECURSIVE MapBag(_, _)
MapBag(F(_), B) ==
  IF BagToSet(B) = {} THEN EmptyBag
  ELSE LET x    == CHOOSE y \in BagToSet(B) : TRUE
           rest == [z \in BagToSet(B) \ {x} |-> B[z]]
       IN  MapBag(F, rest) (+) [z \in {F(x)} |-> B[x]]

\* the task a "return m, watchExcelCmd(...)" starts
watchExcelCmd == [pc |-> "new", el |-> 0, cause |-> "none", gap |-> 0, data |-> NoSnapshot]

\* the task a "return m, writeExcelCmd(exp, st, wl)" starts; pre is the
\* Snapshot the model held before the commit was handled
writeExcelCmd(exp, st, wl, pre) ==
  [pc |-> "new", el |-> 0, exp |-> exp, st |-> st, wl |-> wl,
   opened |-> Workbook(<<>>), data |-> NoSnapshot, pre |-> pre]

excelDataMsg(data, from, cause) ==
  [type |-> "data", data |-> data, err |-> NoErr, index |-> -1,
   expense |-> Expense("", 0), from |-> from, cause |-> cause, pre |-> NoSnapshot]

errMsg(err, from, pre) ==
  [type |-> "err", data |-> NoSnapshot, err |-> err, index |-> -1,
   expense |-> Expense("", 0), from |-> from, cause |-> "none", pre |-> pre]

expenseEditedMsg(index, expense) ==
  [type |-> "edited", data |-> NoSnapshot, err |-> NoErr, index |-> index,
   expense |-> expense, from |-> "form", cause |-> "none", pre |-> NoSnapshot]

\* initialModel: the Snapshot read at startup, or the empty one.  selectedRow
\* is the field of the row-selection version of the model; only the handlers
\* of that version (SpecRow) ever change it.
initialModel(data) ==
  [expenses      |-> data.expenses,
   stonks        |-> data.stonks,
   watchList     |-> data.watchList,
   totalExpenses |-> data.totalExpenses,
   err           |-> NoErr,
   editing       |-> FALSE,
   currentScreen |-> "screenMenu",
   selectedRow   |-> 0]

\* commands running plus messages waiting for Update: the watcher of Init
\* and one more for every form opened
Load ==
  BagCardinality(watchers) + BagCardinality(writers)
    + BagCardinality(forms) + BagCardinality(msgs)

\* forms opened, forms left, saves by other processes and failed calls so far
Inputs == (Load - 1) + (Load - 1 - BagCardinality(forms)) + extCount + faults

\* the outcomes of a call that can fail: TRUE when it succeeds
Outcomes == IF Inputs < MaxInputs THEN {TRUE, FALSE} ELSE {TRUE}

Fault(ok) == faults' = IF ok THEN faults ELSE faults + 1

\* a startup that gives up when the workbook cannot be read
Init_Fatal ==
  /\ doc \in InitDocs
  /\ \E ok \in {TRUE} \cup {b \in {FALSE} : MaxInputs > 0} :
       LET data == IF ok THEN readExcelData(doc) ELSE NoSnapshot
       IN  /\ m = initialModel(data)
           /\ loaded = data
           /\ faults = (IF ok THEN 0 ELSE 1)
           /\ running = (IF ok THEN "run" ELSE "panic")
           /\ watchers = (IF ok THEN SetToBag({watchExcelCmd}) ELSE EmptyBag)
  /\ writers = EmptyBag
  /\ forms = EmptyBag
  /\ msgs = EmptyBag
  /\ sinceEv = D
  /\ signals = 0
  /\ extCount = 0

\* initialModel() and the Init() of the program that tea.NewProgram runs
Init ==
  /\ doc \in InitDocs
  /\ \E ok \in {TRUE} \cup {b \in {FALSE} : MaxInputs > 0} :
       LET data == IF ok THEN readExcelData(doc) ELSE NoSnapshot
       IN  /\ m = initialModel(data)
           /\ loaded = data
           /\ faults = IF ok THEN 0 ELSE 1
  /\ running = "run"
  /\ watchers = SetToBag({watchExcelCmd})
  /\ writers = EmptyBag
  /\ forms = EmptyBag
  /\ msgs = EmptyBag
  /\ sinceEv = D
  /\ signals = 0
  /\ extCount = 0

(***************************************************************************)
(* Time and the file's raw events.                                         *)
(***************************************************************************)
\* a sleep that returns at once
SleepOver_NoWait(el) == el >= 0

\* time.Sleep(D) has returned for a task that went to sleep el ms ago
SleepOver(el) == el >= D

Asleep(t) == IF t.pc = "sleep" THEN [t EXCEPT !.el = Min(D, @ + TickMs)] ELSE t

Tick ==
  /\ running = "run"
  /\ \/ sinceEv < D
     \/ \E w \in BagToSet(watchers) : w.pc = "sleep" /\ w.el < D
     \/ \E wr \in BagToSet(writers) : wr.pc = "sleep" /\ wr.el < D
  /\ watchers' = MapBag(Asleep, watchers)
  /\ writers' = MapBag(Asleep, writers)
  /\ sinceEv' = Min(D, sinceEv + TickMs)
  /\ UNCHANGED <<m, doc, running, forms, msgs, signals, extCount, loaded, faults>>

\* a watcher that restarts its delay on every further event
OnEvent_Restart(w, op, cause) ==
  IF w.pc \in {"wait", "sleep"} /\ op \in {"Write", "Create"}
  THEN [w EXCEPT !.pc = "sleep", !.el = 0, !.cause = cause]
  ELSE w

\* a watcher that reloads on any raw event
OnEvent_AnyOp(w, op, cause) ==
  IF w.pc = "wait"
  THEN [w EXCEPT !.pc = "sleep", !.el = 0, !.cause = cause]
  ELSE w

\* "case event := <-watcher.Events" in a watcher blocked in the select:
\* a Write or Create event sends it to sleep, any other event is dropped
OnEvent(w, op, cause) ==
  IF w.pc = "wait" /\ op \in {"Write", "Create"}
  THEN [w EXCEPT !.pc = "sleep", !.el = 0, !.cause = cause]
  ELSE w

Waiting(W) == [w \in {x \in BagToSet(W) : x.pc = "wait"} |-> W[w]]

\* a raw event on data.xlsx reaches every subscribed watcher
RawEvent(op, cause) ==
  LET Wake(w) == OnEvent(w, op, cause)
      burst   == IF sinceEv >= D THEN 0 ELSE signals
  IN  /\ watchers' = MapBag(Wake, watchers)
      /\ signals' = Min(2, burst + BagCardinality(Waiting(watchers)))
      /\ sinceEv' = 0

\* another process saves the workbook
ExtSave ==
  /\ running = "run"
  /\ Inputs < MaxInputs
  /\ \E d \in ExtDocs(doc) : doc' = d
  /\ extCount' = extCount + 1
  /\ RawEvent("Write", "ext")
  /\ UNCHANGED <<m, running, writers, forms, msgs, loaded, faults>>

(***************************************************************************)
(* watchExcelCmd: subscribe, wait for a Write or Create event, sleep D,    *)
(* read the workbook, return the data (closing the subscription).          *)
(***************************************************************************)
WatcherStart ==
  /\ running = "run"
  /\ \E w \in BagToSet(watchers) :
       /\ w.pc = "new"
       /\ \E ok \in Outcomes :
            /\ Fault(ok)
            /\ IF ok
               THEN /\ watchers' = Add(Del(watchers, w), [w EXCEPT !.pc = "wait"])
                    /\ msgs' = msgs
               ELSE /\ watchers' = Del(watchers, w)
                    /\ msgs' = Add(msgs, errMsg("watch", "watch", NoSnapshot))
  /\ UNCHANGED <<m, doc, running, writers, forms, sinceEv, signals, extCount, loaded>>

WatcherError ==
  /\ running = "run"
  /\ \E w \in BagToSet(watchers) :
       /\ w.pc = "wait"
       /\ FALSE \in Outcomes
       /\ Fault(FALSE)
       /\ watchers' = Del(watchers, w)
       /\ msgs' = Add(msgs, errMsg("watch", "watch", NoSnapshot))
  /\ UNCHANGED <<m, doc, running, writers, forms, sinceEv, signals, extCount, loaded>>

WatcherOpen ==
  /\ running = "run"
  /\ \E w \in BagToSet(watchers) :
       /\ w.pc = "sleep"
       /\ SleepOver(w.el)
       /\ \E ok \in Outcomes :
            /\ Fault(ok)
            /\ IF ok
               THEN /\ watchers' = Add(Del(watchers, w),
                         [w EXCEPT !.pc = "read", !.gap = sinceEv, !.data = readExcelData(doc)])
                    /\ msgs' = msgs
               ELSE /\ watchers' = Del(watchers, w)
                    /\ msgs' = Add(msgs, errMsg("read", "watch", NoSnapshot))
  /\ UNCHANGED <<m, doc, running, writers, forms, sinceEv, signals, extCount, loaded>>

\* a persistent listener: it delivers the data and waits for the next event
WatcherReturn_Persistent ==
  /\ running = "run"
  /\ \E w \in BagToSet(watchers) :
       /\ w.pc = "read"
       /\ watchers' = Add(Del(watchers, w), [w EXCEPT !.pc = "wait"])
       /\ msgs' = Add(msgs, excelDataMsg(w.data, "watch", w.cause))
  /\ UNCHANGED <<m, doc, running, writers, forms, sinceEv, signals, extCount, loaded, faults>>

WatcherReturn ==
  /\ running = "run"
  /\ \E w \in BagToSet(watchers) :
       /\ w.pc = "read"
       /\ watchers' = Del(watchers, w)
       /\ msgs' = Add(msgs, excelDataMsg(w.data, "watch", w.cause))
  /\ UNCHANGED <<m, doc, running, writers, forms, sinceEv, signals, extCount, loaded, faults>>

(***************************************************************************)
(* writeExcelCmd: open and rewrite the workbook, save it, sleep D, read    *)
(* it again, return the data.                                              *)
(***************************************************************************)
WriterOpen ==
  /\ running = "run"
  /\ \E wr \in BagToSet(writers) :
       /\ wr.pc = "new"
       /\ \E ok \in Outcomes :
            /\ Fault(ok)
            /\ IF ok
               THEN /\ writers' = Add(Del(writers, wr), [wr EXCEPT !.pc = "write", !.opened = doc])
                    /\ msgs' = msgs
               ELSE /\ writers' = Del(writers, wr)
                    /\ msgs' = Add(msgs, errMsg("write", "write", wr.pre))
  /\ UNCHANGED <<m, doc, running, watchers, forms, sinceEv, signals, extCount, loaded>>

WriterSave ==
  /\ running = "run"
  /\ \E wr \in BagToSet(writers) :
       /\ wr.pc = "write"
       /\ \E ok \in Outcomes :
            /\ Fault(ok)
            /\ IF ok
               THEN /\ doc' = writeExcelData(wr.opened, wr.exp, wr.st, wr.wl)
                    /\ writers' = Add(Del(writers, wr), [wr EXCEPT !.pc = "sleep", !.el = 0])
                    /\ msgs' = msgs
                    /\ RawEvent("Write", "self")
               ELSE /\ writers' = Del(writers, wr)
                    /\ msgs' = Add(msgs, errMsg("write", "write", wr.pre))
                    /\ UNCHANGED <<doc, watchers, sinceEv, signals>>
  /\ UNCHANGED <<m, running, forms, extCount, loaded>>

\* a write command that reads back without waiting
WriterReopen_NoSleep ==
  /\ running = "run"
  /\ \E wr \in BagToSet(writers) :
       /\ wr.pc = "sleep"
       /\ \E ok \in Outcomes :
            /\ Fault(ok)
            /\ IF ok
               THEN /\ writers' = Add(Del(writers, wr),
                         [wr EXCEPT !.pc = "read", !.data = readExcelData(doc)])
                    /\ msgs' = msgs
               ELSE /\ writers' = Del(writers, wr)
                    /\ msgs' = Add(msgs, errMsg("read", "write", NoSnapshot))
  /\ UNCHANGED <<m, doc, running, watchers, forms, sinceEv, signals, extCount, loaded>>

\* writeExcelCmd after writeExcelData returned nil: time.Sleep(D), then
\* readExcelData
WriterReopen ==
  /\ running = "run"
  /\ \E wr \in BagToSet(writers) :
       /\ wr.pc = "sleep"
       /\ SleepOver(wr.el)
       /\ \E ok \in Outcomes :
            /\ Fault(ok)
            /\ IF ok
               THEN /\ writers' = Add(Del(writers, wr),
                         [wr EXCEPT !.pc = "read", !.data = readExcelData(doc)])
                    /\ msgs' = msgs
               ELSE /\ writers' = Del(writers, wr)
                    /\ msgs' = Add(msgs, errMsg("read", "write", NoSnapshot))
  /\ UNCHANGED <<m, doc, running, watchers, forms, sinceEv, signals, extCount, loaded>>

WriterReturn ==
  /\ running = "run"
  /\ \E wr \in BagToSet(writers) :
       /\ wr.pc = "read"
       /\ writers' = Del(writers, wr)
       /\ msgs' = Add(msgs, excelDataMsg(wr.data, "write", "none"))
  /\ UNCHANGED <<m, doc, running, watchers, forms, sinceEv, signals, extCount, loaded, faults>>

(***************************************************************************)
(* The edit forms.                                                         *)
(***************************************************************************)
\* the form pre-filled with expense number index (0-based, as in the code)
editExpenseForm(index) ==
  [index |-> index, name |-> m.expenses[index + 1].Name, amount |-> m.expenses[index + 1].Amount]

newExpenseForm == [index |-> -1, name |-> "", amount |-> 0]

\* form.Run() ends well and the amount parses: the fields as the user typed them
FormCommit ==
  /\ running = "run"
  /\ \E f \in BagToSet(forms) :
       \E e \in Drafts :
          /\ Inputs < MaxInputs
          /\ forms' = Del(forms, f)
          /\ msgs' = Add(msgs, expenseEditedMsg(f.index, e))
  /\ UNCHANGED <<m, doc, running, watchers, writers, sinceEv, signals, extCount, loaded, faults>>

\* form.Run() fails (the user aborts) or the amount does not parse
FormAbort ==
  /\ running = "run"
  /\ \E f \in BagToSet(forms) :
       /\ Inputs < MaxInputs
       /\ forms' = Del(forms, f)
       /\ msgs' = Add(msgs, errMsg("form", "form", NoSnapshot))
  /\ UNCHANGED <<m, doc, running, watchers, writers, sinceEv, signals, extCount, loaded, faults>>

(***************************************************************************)
(* model.Update                                                            *)
(***************************************************************************)
\* the keys that open a form, and the keys that navigate or quit
EditKeys == {"e", "n"}

NavKeys == {"q", "1", "2", "3", "b"}

\* a key handler that opens a form whether or not one is open
KeyMsg_NoGuard(k) ==
  CASE k = "e" ->
         /\ running' = running
         /\ IF Len(m.expenses) > 0
            THEN /\ Inputs < MaxInputs
                 /\ m' = [m EXCEPT !.editing = TRUE]
                 /\ forms' = Add(forms, editExpenseForm(0))
            ELSE UNCHANGED <<m, forms>>
    [] k = "n" ->
         /\ running' = running
         /\ Inputs < MaxInputs
         /\ m' = [m EXCEPT !.editing = TRUE]
         /\ forms' = Add(forms, newExpenseForm)
    [] OTHER -> UNCHANGED <<running, m, forms>>

\* case tea.KeyMsg: the switch on msg.String()
KeyMsg(k) ==
  CASE k = "q" ->
         /\ running' = "quit"
         /\ UNCHANGED <<m, forms>>
    [] k = "e" ->
         /\ running' = running
         /\ IF Len(m.expenses) > 0 /\ ~m.editing
            THEN /\ Inputs < MaxInputs
                 /\ m' = [m EXCEPT !.editing = TRUE]
                 /\ forms' = Add(forms, editExpenseForm(0))
            ELSE UNCHANGED <<m, forms>>
    [] k = "n" ->
         /\ running' = running
         /\ IF ~m.editing
            THEN /\ Inputs < MaxInputs
                 /\ m' = [m EXCEPT !.editing = TRUE]
                 /\ forms' = Add(forms, newExpenseForm)
            ELSE UNCHANGED <<m, forms>>
    [] k = "1" ->
         /\ m' = [m EXCEPT !.currentScreen = "screenExpenses"]
         /\ UNCHANGED <<running, forms>>
    [] k = "2" ->
         /\ m' = [m EXCEPT !.currentScreen = "screenStonks"]
         /\ UNCHANGED <<running, forms>>
    [] k = "3" ->
         /\ m' = [m EXCEPT !.currentScreen = "screenWatchlist"]
         /\ UNCHANGED <<running, forms>>
    [] k = "b" ->
         /\ m' = [m EXCEPT !.currentScreen = "screenMenu"]
         /\ UNCHANGED <<running, forms>>

\* case tea.KeyMsg, for "e" and "n"
UpdateKey ==
  /\ running = "run"
  /\ \E k \in EditKeys : KeyMsg(k)
  /\ UNCHANGED <<doc, watchers, writers, msgs, sinceEv, signals, extCount, loaded, faults>>

\* a navigation that also leaves the editing state
UpdateNavKey_ClosesEdit ==
  /\ running = "run"
  /\ \E k \in NavKeys :
       /\ running' = (IF k = "q" THEN "quit" ELSE running)
       /\ forms' = forms
       /\ m' = [m EXCEPT !.editing = FALSE,
                         !.currentScreen =
                            CASE k = "1" -> "screenExpenses"
                              [] k = "2" -> "screenStonks"
                              [] k = "3" -> "screenWatchlist"
                              [] k = "b" -> "screenMenu"
                              [] OTHER   -> @]
  /\ UNCHANGED <<doc, watchers, writers, msgs, sinceEv, signals, extCount, loaded, faults>>

\* case tea.KeyMsg, for the other keys
UpdateNavKey ==
  /\ running = "run"
  /\ \E k \in NavKeys : KeyMsg(k)
  /\ UNCHANGED <<doc, watchers, writers, msgs, sinceEv, signals, extCount, loaded, faults>>

\* a handler that also leaves the editing state
UpdateData_ClosesEdit ==
  /\ running = "run"
  /\ \E msg \in BagToSet(msgs) :
       /\ msg.type = "data"
       /\ msgs' = Del(msgs, msg)
       /\ m' = [m EXCEPT !.expenses = msg.data.expenses,
                         !.stonks = msg.data.stonks,
                         !.watchList = msg.data.watchList,
                         !.totalExpenses = msg.data.totalExpenses,
                         !.editing = FALSE]
       /\ loaded' = msg.data
       /\ watchers' = Add(watchers, watchExcelCmd)
  /\ UNCHANGED <<doc, running, writers, forms, sinceEv, signals, extCount, faults>>

\* a handler that copies expenses and stonks only
UpdateData_TwoFields ==
  /\ running = "run"
  /\ \E msg \in BagToSet(msgs) :
       /\ msg.type = "data"
       /\ msgs' = Del(msgs, msg)
       /\ m' = [m EXCEPT !.expenses = msg.data.expenses,
                         !.stonks = msg.data.stonks]
       /\ loaded' = msg.data
       /\ watchers' = Add(watchers, watchExcelCmd)
  /\ UNCHANGED <<doc, running, writers, forms, sinceEv, signals, extCount, faults>>

\* case excelDataMsg
UpdateData ==
  /\ running = "run"
  /\ \E msg \in BagToSet(msgs) :
       /\ msg.type = "data"
       /\ msgs' = Del(msgs, msg)
       /\ m' = [m EXCEPT !.expenses = msg.data.expenses,
                         !.stonks = msg.data.stonks,
                         !.watchList = msg.data.watchList,
                         !.totalExpenses = msg.data.totalExpenses]
       /\ loaded' = msg.data
       /\ watchers' = Add(watchers, watchExcelCmd)
  /\ UNCHANGED <<doc, running, writers, forms, sinceEv, signals, extCount, faults>>

\* a handler that records the error and starts no watcher
UpdateErr_NoWatch ==
  /\ running = "run"
  /\ \E msg \in BagToSet(msgs) :
       /\ msg.type = "err"
       /\ msgs' = Del(msgs, msg)
       /\ m' = [m EXCEPT !.err = msg.err]
       /\ watchers' = watchers
  /\ UNCHANGED <<doc, running, writers, forms, sinceEv, signals, extCount, loaded, faults>>

\* case errMsg
UpdateErr ==
  /\ running = "run"
  /\ \E msg \in BagToSet(msgs) :
       /\ msg.type = "err"
       /\ msgs' = Del(msgs, msg)
       /\ m' = [m EXCEPT !.err = msg.err]
       /\ watchers' = Add(watchers, watchExcelCmd)
  /\ UNCHANGED <<doc, running, writers, forms, sinceEv, signals, extCount, loaded, faults>>

\* a commit handler that appends the expense whatever the index
UpdateEdited_AlwaysAppend ==
  /\ running = "run"
  /\ \E msg \in BagToSet(msgs) :
       /\ msg.type = "edited"
       /\ msgs' = Del(msgs, msg)
       /\ LET expenses == Append(m.expenses, msg.expense)
          IN  /\ m' = [m EXCEPT !.expenses = expenses, !.editing = FALSE]
              /\ writers' = Add(writers,
                   writeExcelCmd(expenses, m.stonks, m.watchList, Snap(m)))
              /\ running' = running
  /\ UNCHANGED <<doc, watchers, forms, sinceEv, signals, extCount, loaded, faults>>

\* case expenseEditedMsg; an index outside m.expenses is a runtime panic
UpdateEdited ==
  /\ running = "run"
  /\ \E msg \in BagToSet(msgs) :
       /\ msg.type = "edited"
       /\ msgs' = Del(msgs, msg)
       /\ IF msg.index # -1 /\ ~(msg.index >= 0 /\ msg.index < Len(m.expenses))
          THEN /\ running' = "panic"
               /\ UNCHANGED <<m, writers>>
          ELSE LET expenses == IF msg.index = -1
                               THEN Append(m.expenses, msg.expense)
                               ELSE [m.expenses EXCEPT ![msg.index + 1] = msg.expense]
               IN  /\ m' = [m EXCEPT !.expenses = expenses, !.editing = FALSE]
                   /\ writers' = Add(writers,
                        writeExcelCmd(expenses, m.stonks, m.watchList, Snap(m)))
                   /\ running' = running
  /\ UNCHANGED <<doc, watchers, forms, sinceEv, signals, extCount, loaded, faults>>

Next ==
  \/ Tick
  \/ ExtSave
  \/ WatcherStart
  \/ WatcherError
  \/ WatcherOpen
  \/ WatcherReturn
  \/ WriterOpen
  \/ WriterSave
  \/ WriterReopen
  \/ WriterReturn
  \/ FormCommit
  \/ FormAbort
  \/ UpdateKey
  \/ UpdateData
  \/ UpdateErr
  \/ UpdateEdited

Spec == Init /\ [][Next]_vars

\* the same program with the user also navigating between the screens
NextUI ==
  \/ Next
  \/ UpdateNavKey

SpecUI == Init /\ [][NextUI]_vars

(***************************************************************************)
(* The program with other processes that also remove, rename or chmod the  *)
(* workbook: raw events without the Write or Create bit.  extCount counts  *)
(* these acts together with the saves.  The event is all that is modelled  *)
(* here; a later read of a removed file fails as any read may (Outcomes).  *)
(***************************************************************************)
OtherOps == {"Remove", "Rename", "Chmod"}

ExtOther ==
  /\ running = "run"
  /\ Inputs < MaxInputs
  /\ \E op \in OtherOps :
       LET Wake(w) == OnEvent(w, op, "ext")
       IN  watchers' = MapBag(Wake, watchers)
  /\ extCount' = extCount + 1
  /\ UNCHANGED <<m, doc, running, writers, forms, msgs, sinceEv, signals, loaded, faults>>

NextEv ==
  \/ Next
  \/ ExtOther

SpecEv == Init /\ [][NextEv]_vars

(***************************************************************************)
(* The program with the user as the only source of change: no other        *)
(* process saves the workbook and no call fails.  The user may go one      *)
(* input further than in Spec, which makes room for two complete edits.    *)
(***************************************************************************)
EditInputs == MaxInputs + 1

InitEdit ==
  /\ Init
  /\ faults = 0

\* case tea.KeyMsg for "e" and "n", when it opens a form
EditKey ==
  /\ running = "run"
  /\ ~m.editing
  /\ Inputs < EditInputs
  /\ \E k \in EditKeys :
       /\ k = "e" => Len(m.expenses) > 0
       /\ forms' = Add(forms, IF k = "e" THEN editExpenseForm(0) ELSE newExpenseForm)
  /\ m' = [m EXCEPT !.editing = TRUE]
  /\ UNCHANGED <<doc, running, watchers, writers, msgs, sinceEv, signals, extCount, loaded, faults>>

\* form.Run() ends well and the amount parses
EditCommit ==
  /\ running = "run"
  /\ Inputs < EditInputs
  /\ \E f \in BagToSet(forms) :
       \E e \in Drafts :
          /\ forms' = Del(forms, f)
          /\ msgs' = Add(msgs, expenseEditedMsg(f.index, e))
  /\ UNCHANGED <<m, doc, running, watchers, writers, sinceEv, signals, extCount, loaded, faults>>

\* the step A when its call does not fail
Smooth(A) == A /\ faults' = faults

NextEdit ==
  \/ Tick
  \/ Smooth(WatcherStart)
  \/ Smooth(WatcherOpen)
  \/ WatcherReturn
  \/ Smooth(WriterOpen)
  \/ Smooth(WriterSave)
  \/ Smooth(WriterReopen)
  \/ WriterReturn
  \/ EditKey
  \/ EditCommit
  \/ UpdateData
  \/ UpdateEdited

SpecEdit == InitEdit /\ [][NextEdit]_vars

(***************************************************************************)
(* The row-selection version of Update: a menu list on the menu screen,    *)
(* "up" and "down" move the selected row on the other screens, "e" edits   *)
(* the selected row, and a commit shows the expenses screen.  Its commands *)
(* are those of Spec; no call fails here.                                  *)
(***************************************************************************)
MenuItems == {"Expenses", "Stonks", "Watchlist"}

\* "enter" on the menu screen, with the list on item selected
UpdateMenuKey ==
  /\ running = "run"
  /\ m.currentScreen = "screenMenu"
  /\ \E selected \in MenuItems :
       m' = [m EXCEPT !.currentScreen =
                         CASE selected = "Expenses"  -> "screenExpenses"
                           [] selected = "Stonks"    -> "screenStonks"
                           [] selected = "Watchlist" -> "screenWatchlist"]
  /\ UNCHANGED <<doc, running, watchers, writers, forms, msgs, sinceEv, signals, extCount, faults, loaded>>

RowKeys == {"up", "down", "b", "e", "n"}

\* case tea.KeyMsg on a screen other than the menu; editExpenseForm reads
\* m.expenses[index] at once, a runtime panic when index is out of range
RowKeyMsg(k) ==
  CASE k = "up" ->
         /\ m' = IF m.selectedRow > 0
                 THEN [m EXCEPT !.selectedRow = @ - 1]
                 ELSE m
         /\ UNCHANGED <<running, forms>>
    [] k = "down" ->
         /\ m' = IF m.selectedRow < Len(m.expenses) - 1
                 THEN [m EXCEPT !.selectedRow = @ + 1]
                 ELSE m
         /\ UNCHANGED <<running, forms>>
    [] k = "b" ->
         /\ m' = [m EXCEPT !.currentScreen = "screenMenu"]
         /\ UNCHANGED <<running, forms>>
    [] k = "e" ->
         IF m.currentScreen = "screenExpenses" /\ ~m.editing /\ Len(m.expenses) > 0
         THEN IF m.selectedRow < Len(m.expenses)
              THEN /\ Inputs < MaxInputs
                   /\ m' = [m EXCEPT !.editing = TRUE]
                   /\ forms' = Add(forms, editExpenseForm(m.selectedRow))
                   /\ running' = running
              ELSE /\ running' = "panic"
                   /\ UNCHANGED <<m, forms>>
         ELSE UNCHANGED <<running, m, forms>>
    [] k = "n" ->
         /\ running' = running
         /\ IF m.currentScreen = "screenExpenses" /\ ~m.editing
            THEN /\ Inputs < MaxInputs
                 /\ m' = [m EXCEPT !.editing = TRUE]
                 /\ forms' = Add(forms, newExpenseForm)
            ELSE UNCHANGED <<m, forms>>

UpdateRowKey ==
  /\ running = "run"
  /\ m.currentScreen # "screenMenu"
  /\ \E k \in RowKeys : RowKeyMsg(k)
  /\ UNCHANGED <<doc, watchers, writers, msgs, sinceEv, signals, extCount, loaded, faults>>

\* case expenseEditedMsg of the row-selection version; on the menu screen
\* the message goes to the list, which ignores it
UpdateEditedRow ==
  /\ running = "run"
  /\ \E msg \in BagToSet(msgs) :
       /\ msg.type = "edited"
       /\ msgs' = Del(msgs, msg)
       /\ IF m.currentScreen = "screenMenu"
          THEN UNCHANGED <<m, writers, running>>
          ELSE IF msg.index # -1 /\ ~(msg.index >= 0 /\ msg.index < Len(m.expenses))
          THEN /\ running' = "panic"
               /\ UNCHANGED <<m, writers>>
          ELSE LET expenses == IF msg.index = -1
                               THEN Append(m.expenses, msg.expense)
                               ELSE [m.expenses EXCEPT ![msg.index + 1] = msg.expense]
               IN  /\ m' = [m EXCEPT !.expenses = expenses, !.editing = FALSE,
                                     !.currentScreen = "screenExpenses"]
                   /\ writers' = Add(writers,
                        writeExcelCmd(expenses, m.stonks, m.watchList, Snap(m)))
                   /\ running' = running
  /\ UNCHANGED <<doc, watchers, forms, sinceEv, signals, extCount, loaded, faults>>

InitRow ==
  /\ Init
  /\ faults = 0

NextRow ==
  \/ Tick
  \/ ExtSave
  \/ Smooth(WatcherStart)
  \/ Smooth(WatcherOpen)
  \/ WatcherReturn
  \/ Smooth(WriterOpen)
  \/ Smooth(WriterSave)
  \/ Smooth(WriterReopen)
  \/ WriterReturn
  \/ FormCommit
  \/ FormAbort
  \/ UpdateMenuKey
  \/ UpdateRowKey
  \/ UpdateData
  \/ UpdateErr
  \/ UpdateEditedRow

SpecRow == InitRow /\ [][NextRow]_vars

(***************************************************************************)
(* readExcelData and writeExcelData on their own: a workbook drawn from     *)
(* IODocs is read, or rewritten with a Snapshot drawn from IOSnaps and read *)
(* back.  msgs holds what the last read returned, writers what the last    *)
(* write stored; the other variables stay as Init leaves them.             *)
(***************************************************************************)
FunRow == <<Text("Fun"), Num(50)>>

AcmeRow == <<Text("ACME"), Num(3), Text("hold"), Num(7)>>

TlaRow == <<Text("TLA"), Text("10"), Text("Yes")>>

\* data rows of the Expenses sheet: full rows, a row with one cell, a row
\* whose amount is a text
IOExpenses ==
  {<<>>,
   <<RentRow>>,
   <<RentRow, FoodRow, FunRow>>,
   <<RentRow, <<Text("Gym")>>, FoodRow>>,
   <<RentRow, <<Text("Fee"), Text("n/a")>>, FunRow>>}

\* data rows of the Stonks sheet: full rows and a row with three cells
IOStonks == {<<>>, <<AcmeRow>>, <<<<Text("BAD"), Num(1), Text("x")>>, AcmeRow>>}

\* data rows of the WatchList sheet: full rows and a row with two cells
IOWatchList == {<<>>, <<TlaRow>>, <<<<Text("BAD"), Text("5")>>, TlaRow>>}

IODocs ==
  {[Expenses  |-> <<ExpensesHeader>> \o e,
    Stonks    |-> <<StonksHeader>> \o s,
    WatchList |-> <<WatchListHeader>> \o w] :
      e \in IOExpenses, s \in IOStonks, w \in IOWatchList}

\* the collections handed to writeExcelData
IOSnaps ==
  {[expenses |-> e, stonks |-> s, watchList |-> w] :
      e \in {<<>>, <<Expense("Food", 250)>>, <<Expense("Rent", 1000), Expense("Food", 250)>>},
      s \in {<<>>, <<Stonk("ACME", 4, "sell", 7)>>},
      w \in {<<>>, <<WatchItem("TLA", "10", FALSE)>>}}

InitIO ==
  /\ doc \in IODocs
  /\ m = initialModel(NoSnapshot)
  /\ loaded = NoSnapshot
  /\ running = "run"
  /\ watchers = EmptyBag
  /\ writers = EmptyBag
  /\ forms = EmptyBag
  /\ msgs = EmptyBag
  /\ sinceEv = D
  /\ signals = 0
  /\ extCount = 0
  /\ faults = 0

\* data, err := readExcelData("data.xlsx") on a workbook that opens
IORead ==
  /\ msgs' = SetToBag({excelDataMsg(readExcelData(doc), "read", "none")})
  /\ UNCHANGED <<m, doc, running, watchers, writers, forms, sinceEv, signals, extCount, faults, loaded>>

\* writeExcelData("data.xlsx", exp, st, wl) on a workbook that opens and saves
IOWrite ==
  /\ \E S \in IOSnaps :
       /\ doc' = writeExcelData(doc, S.expenses, S.stonks, S.watchList)
       /\ writers' = SetToBag({[writeExcelCmd(S.expenses, S.stonks, S.watchList, NoSnapshot)
                                  EXCEPT !.pc = "saved", !.opened = doc]})
  /\ msgs' = EmptyBag
  /\ UNCHANGED <<m, running, watchers, forms, sinceEv, signals, extCount, faults, loaded>>

\* a read that gives up when the formula has no numeric value
readExcelDataCalc_Abort(d, computed) ==
  IF computed.isNum
  THEN [readExcelData(d) EXCEPT !.totalExpenses = ParseFloat(computed)]
  ELSE NoSnapshot

\* readExcelData when f.CalcCellValue returns computed: both errors are
\* dropped and the total is what strconv.ParseFloat makes of computed
readExcelDataCalc(d, computed) ==
  [readExcelData(d) EXCEPT !.totalExpenses = ParseFloat(computed)]

\* what f.CalcCellValue returns when the formula cannot be evaluated (the
\* empty string, with an error) or evaluates to an error value
CalcFailures == {Text(""), Text("#VALUE!")}

\* readExcelData on a workbook whose formula fails
IOReadCalcError ==
  /\ \E computed \in CalcFailures :
       msgs' = SetToBag({excelDataMsg(readExcelDataCalc(doc, computed), "read", "formula")})
  /\ UNCHANGED <<m, doc, running, watchers, writers, forms, sinceEv, signals, extCount, faults, loaded>>

\* writeExcelData with the collections the last read returned
IOWriteBack ==
  /\ \E msg \in BagToSet(msgs) :
       /\ msg.type = "data"
       /\ doc' = writeExcelData(doc, msg.data.expenses, msg.data.stonks, msg.data.watchList)
       /\ writers' = SetToBag({[writeExcelCmd(msg.data.expenses, msg.data.stonks,
                                              msg.data.watchList, NoSnapshot)
                                  EXCEPT !.pc = "savedBack", !.opened = doc]})
  /\ msgs' = EmptyBag
  /\ UNCHANGED <<m, running, watchers, forms, sinceEv, signals, extCount, faults, loaded>>

NextIO ==
  \/ IORead
  \/ IOReadCalcError
  \/ IOWrite
  \/ IOWriteBack

SpecIO == InitIO /\ [][NextIO]_vars

TypeOK ==
  /\ running \in {"run", "quit", "panic"}
  /\ sinceEv \in 0..D
  /\ signals \in 0..2
  /\ extCount \in 0..MaxInputs
  /\ faults \in 0..MaxInputs
  /\ Inputs <= MaxInputs

(***************************************************************************)
(* Properties.                                                             *)
(***************************************************************************)
\* the elements of bag B that satisfy P, counted with their copies
CountIf(B, P(_)) == BagCardinality([x \in {y \in BagToSet(B) : P(y)} |-> B[x]])

Subscribed(w) == w.pc \in {"wait", "sleep", "read"}

InIO(t) == t.pc \in {"write", "read"}

\* no command is running or about to run, and no message waits for Update
Quiescent ==
  /\ msgs = EmptyBag
  /\ writers = EmptyBag
  /\ forms = EmptyBag
  /\ \A w \in BagToSet(watchers) : w.pc = "wait"

\* the step is Update handling message msg
Handled(msg) == msg \in BagToSet(msgs) /\ msgs' = Del(msgs, msg)

\* C1: at every moment at most one file-watcher subscription on the workbook
\* is active.
C1_AtMostOneSubscription == CountIf(watchers, Subscribed) <= 1

\* C2: the raw event caused by a commit's own write produces no reload: no
\* Snapshot message comes from a watcher that was woken by that write.
C2_NoEchoReload ==
  \A msg \in BagToSet(msgs) :
     ~(msg.type = "data" /\ msg.from = "watch" /\ msg.cause = "self")

C5_SettledInSync ==
  (running = "run" /\ Quiescent /\ extCount > 0 /\ faults = 0)
     => Snap(m) = readExcelData(doc)

\* C6: at most one read or write of the workbook is in progress.
C6_NoOverlappingIO == CountIf(watchers, InIO) + CountIf(writers, InIO) <= 1

C8_WriteFailureRestores ==
  [][\A msg \in BagToSet(msgs) :
        (msg.type = "err" /\ msg.from = "write" /\ msg.err = "write" /\ Handled(msg))
           => /\ Snap(m') = msg.pre
              /\ m'.err = "write"
              /\ watchers' = Add(watchers, watchExcelCmd)]_vars

\* C9: when the read of a reload fails, handling the error keeps the
\* Snapshot, records the error and arms a fresh watcher; and while the
\* program runs there is always a watcher, or a command or a message whose
\* handling arms one.
C9_ReadFailureKeepsWatching ==
  /\ [][\A msg \in BagToSet(msgs) :
          (msg.type = "err" /\ msg.err = "read" /\ Handled(msg))
             => /\ Snap(m') = Snap(m)
                /\ m'.err = "read"
                /\ watchers' = Add(watchers, watchExcelCmd)]_vars
  /\ [](running = "run" => watchers # EmptyBag \/ writers # EmptyBag \/ msgs # EmptyBag)

\* a read failed, the Snapshot is the one loaded before, a new watcher is subscribed
C9_Witness ==
  /\ m.err = "read"
  /\ Snap(m) = loaded
  /\ \E w \in BagToSet(watchers) : w.pc = "wait"

\* C10: expenses, stonks, watchList and totalExpenses of the model all come
\* from the same read: together they are the last Snapshot loaded.
C10_SnapshotNotTorn ==
  /\ m.expenses = loaded.expenses
  /\ m.stonks = loaded.stonks
  /\ m.watchList = loaded.watchList
  /\ m.totalExpenses = loaded.totalExpenses

\* C11: at most one edit session is open at any time: while the model is
\* editing no step starts another edit form, so at most one edit form is in
\* flight, and a form in flight means the model is editing.
C11_OneEditSession ==
  /\ [](BagCardinality(forms) <= 1 /\ (forms # EmptyBag => m.editing))
  /\ [][m.editing => BagCardinality(forms') <= BagCardinality(forms)]_vars

\* a session is open, its form is in flight, and the user may press 'e' or 'n'
C11_Witness ==
  /\ running = "run"
  /\ m.editing
  /\ BagCardinality(forms) = 1
  /\ Inputs < MaxInputs

\* C12: cancelling an edit (the form ends in an error) performs no write and
\* ends the session: when Update has handled the form's error no write has
\* been started, the workbook is as it was and the model is no longer
\* editing, so that the next 'e' or 'n' opens a form.
C12_CancelEndsSession ==
  [][\A msg \in BagToSet(msgs) :
        (msg.type = "err" /\ msg.from = "form" /\ Handled(msg))
           => /\ writers' = writers
              /\ doc' = doc
              /\ forms' = forms
              /\ ~m'.editing]_vars

\* C13: a commit with index -1 yields the old expenses with the draft
\* appended (one longer, every prior element unchanged and in place); a
\* commit with a valid index yields expenses of the same length that hold
\* the draft at that index and differ from the old ones nowhere else.
C13_CommitSemantics ==
  [][\A msg \in BagToSet(msgs) :
        (msg.type = "edited" /\ Handled(msg) /\ running' = "run")
           => LET old == m.expenses
                  new == m'.expenses
                  i   == msg.index + 1
              IN  \/ /\ msg.index = -1
                     /\ Len(new) = Len(old) + 1
                     /\ \A j \in 1..Len(old) : new[j] = old[j]
                     /\ new[Len(new)] = msg.expense
                  \/ /\ msg.index \in 0..(Len(old) - 1)
                     /\ Len(new) = Len(old)
                     /\ new[i] = msg.expense
                     /\ \A j \in (1..Len(old)) \ {i} : new[j] = old[j]]_vars

\* a commit at index 0 has replaced the first of two expenses and kept the other
C13_Witness ==
  \E wr \in BagToSet(writers) :
     /\ wr.pc = "new"
     /\ m.expenses = wr.exp
     /\ Len(wr.exp) = 2
     /\ Len(wr.pre.expenses) = 2
     /\ wr.exp[1] # wr.pre.expenses[1]
     /\ wr.exp[2] = wr.pre.expenses[2]

\* C14: a reload message is accepted in every interaction state, whatever
\* the screen and whether or not an edit is open; handling it replaces the
\* Snapshot and leaves the current screen, the editing flag, the error and
\* the open form with its draft and target index unchanged.
C14_ReloadKeepsSession ==
  /\ []((running = "run" /\ \E msg \in BagToSet(msgs) : msg.type = "data")
          => ENABLED UpdateData)
  /\ [][\A msg \in BagToSet(msgs) :
          (msg.type = "data" /\ Handled(msg))
             => /\ Snap(m') = msg.data
                /\ m'.currentScreen = m.currentScreen
                /\ m'.editing = m.editing
                /\ m'.err = m.err
                /\ forms' = forms]_vars

\* a reload has been handled on the expenses screen while the form opened on
\* (Rent, 1000) was in flight: the Snapshot is the new one, the form is intact
C14_Witness ==
  /\ m.editing
  /\ m.currentScreen = "screenExpenses"
  /\ extCount > 0
  /\ Snap(m) = readExcelData(doc)
  /\ Len(m.expenses) = 2
  /\ \E f \in BagToSet(forms) : f.index = 0 /\ f.name = "Rent" /\ f.amount = 1000
  /\ \E w \in BagToSet(watchers) : w.pc = "new"

\* the Snapshots the last read returned
ReadBack == {msg.data : msg \in {x \in BagToSet(msgs) : x.type = "data"}}

\* C15: reading the workbook after writing the collections of a Snapshot
\* over any prior content returns expenses, stonks and watchList equal to
\* the ones written.
C15_RoundTrip ==
  \A wr \in BagToSet(writers) : \A data \in ReadBack :
     wr.pc = "saved"
        => /\ data.expenses = wr.exp
           /\ data.stonks = wr.st
           /\ data.watchList = wr.wl

RECURSIVE SumAmounts(_)
SumAmounts(expenses) ==
  IF expenses = <<>> THEN 0
  ELSE expenses[1].Amount + SumAmounts(Tail(expenses))

\* C16: the total returned by a read is the sum of the amounts of all the
\* expense rows read, 1250 for (Rent, 1000), (Food, 200), (Fun, 50).
C16_TotalIsSum ==
  \A data \in ReadBack : data.totalExpenses = SumAmounts(data.expenses)

\* the data rows of a sheet (row 1 is the header) that have at least k cells
Kept(rows, k) == {i \in 2..Len(rows) : Len(rows[i]) >= k}

\* the place of row i among the rows of K, in document order
Rank(K, i) == Cardinality({x \in K : x < i}) + 1

\* C18: a read never fails on a short row: in each collection the rows with
\* fewer cells than its columns (2 for Expenses, 4 for Stonks, 3 for
\* WatchList) are left out, and every other row of every collection is
\* loaded, in document order.
C18_ShortRowsSkipped ==
  /\ ENABLED IORead
  /\ \A data \in ReadBack :
       LET E == Kept(doc.Expenses, 2)
           S == Kept(doc.Stonks, 4)
           W == Kept(doc.WatchList, 3)
       IN  /\ Len(data.expenses) = Cardinality(E)
           /\ \A i \in E :
                LET line == doc.Expenses[i]
                IN  data.expenses[Rank(E, i)] = Expense(line[1].s, ParseFloat(line[2]))
           /\ Len(data.stonks) = Cardinality(S)
           /\ \A i \in S :
                LET line == doc.Stonks[i]
                IN  data.stonks[Rank(S, i)]
                      = Stonk(line[1].s, ParseFloat(line[2]), line[3].s, ParseFloat(line[4]))
           /\ Len(data.watchList) = Cardinality(W)
           /\ \A i \in W :
                LET line == doc.WatchList[i]
                IN  data.watchList[Rank(W, i)]
                      = WatchItem(line[1].s, line[2].s, line[3].s = "Yes")

\* a workbook whose WatchList and Expenses each hold a short row before a
\* full one has been read: the short rows are left out, the rows after them
\* are loaded
C18_Witness ==
  /\ Len(doc.WatchList) = 3
  /\ Len(doc.WatchList[2]) = 2
  /\ Len(doc.Expenses) = 4
  /\ Len(doc.Expenses[3]) = 1
  /\ \E data \in ReadBack :
       /\ Len(data.watchList) = 1
       /\ data.watchList[1].Symbol = doc.WatchList[3][1].s
       /\ Len(data.expenses) = 2
       /\ data.expenses[2].Name = doc.Expenses[4][1].s
       /\ data.stonks # <<>>

\* C17: when an edit of an existing expense is committed and written with
\* no save by another process and no failure, the workbook holds the edited
\* expenses, and the Snapshot of the forced reload is the Snapshot from
\* before the edit with that expense replaced and the total recomputed over
\* all the amounts.
C17_EditEndToEnd ==
  \A wr \in BagToSet(writers) :
     (wr.pc = "read" /\ extCount = 0 /\ faults = 0
        /\ Len(wr.exp) = Len(wr.pre.expenses))
        => /\ readExpenses(doc.Expenses) = wr.exp
           /\ wr.data.expenses = wr.exp
           /\ wr.data.stonks = wr.pre.stonks
           /\ wr.data.watchList = wr.pre.watchList
           /\ wr.data.totalExpenses = SumAmounts(wr.exp)

\* C19: when the workbook cannot be read at startup the program starts all
\* the same, on the menu, with three empty collections and total 0 and with
\* the watcher of Init armed; it keeps running, and stonks, watchList and
\* total stay empty until a reload is handled.
C19_StartupFailureStartsEmpty ==
  /\ (loaded = NoSnapshot
        => /\ running = "run"
           /\ m.currentScreen = "screenMenu"
           /\ Snap(m) = NoSnapshot
           /\ watchers = SetToBag({watchExcelCmd}))
  /\ [](loaded = NoSnapshot
          => /\ running # "panic"
             /\ m.stonks = <<>>
             /\ m.watchList = <<>>
             /\ m.totalExpenses = 0)

\* the startup read failed; the program runs on the menu with the empty
\* Snapshot and its watcher has subscribed
C19_Witness ==
  /\ faults = 1
  /\ loaded = NoSnapshot
  /\ running = "run"
  /\ m.currentScreen = "screenMenu"
  /\ Snap(m) = NoSnapshot
  /\ \E w \in BagToSet(watchers) : w.pc = "wait"

\* model.View: the lines of the screen, each with the text and the number
\* it prints
Line(kind, text, n) == [kind |-> kind, text |-> text, n |-> n]

viewMenu(mm) ==
  <<Line("title", "Edit Expenses Title", 0),
    Line("item", "1) Expenses", 0),
    Line("item", "2) Stonks", 0),
    Line("item", "3) Watchlist", 0),
    Line("help", "Press q to quit.", 0)>>

viewExpenses(mm) ==
  <<Line("title", "=== EXPENSES ===", 0)>>
    \o [i \in 1..Len(mm.expenses) |->
          Line("expense", mm.expenses[i].Name, mm.expenses[i].Amount)]
    \o <<Line("total", "TOTAL:", mm.totalExpenses),
         Line("help", "Press 'b' to go back.", 0),
         Line("help", "Press 'e' to edit.", 0)>>

viewStonks(mm) ==
  <<Line("title", "=== STONKS ===", 0), Line("help", "Press 'b' to go back.", 0)>>

viewWatchlist(mm) ==
  <<Line("title", "=== WATCHLIST ===", 0), Line("help", "Press 'b' to go back.", 0)>>

View(mm) ==
  CASE mm.currentScreen = "screenMenu"      -> viewMenu(mm)
    [] mm.currentScreen = "screenExpenses"  -> viewExpenses(mm)
    [] mm.currentScreen = "screenStonks"    -> viewStonks(mm)
    [] mm.currentScreen = "screenWatchlist" -> viewWatchlist(mm)
    [] OTHER -> <<Line("title", "Unknown screen", 0)>>

\* some line of the screen is an error line or carries the text of the error
ShowsError(mm) ==
  \E i \in 1..Len(View(mm)) :
     View(mm)[i].kind = "error" \/ View(mm)[i].text = mm.err

\* C20: every error is surfaced: once a call has failed (the read at
\* startup, the read of a reload, a write, a watcher) and no error message
\* waits for Update, the model's error is set and the view of the current
\* screen shows it.
C20_ErrorsSurfaced ==
  (faults > 0 /\ \A msg \in BagToSet(msgs) : msg.type # "err")
     => (m.err # NoErr /\ ShowsError(m))

\* C20, the view alone: an error recorded in the model is shown on the
\* current screen.
C20_RecordedErrorShown == m.err # NoErr => ShowsError(m)

\* the step starts an edit form
OpensForm == BagCardinality(forms') > BagCardinality(forms)

\* C21: an edit session is opened only from a Viewing state and targets the
\* collection of the screen it is opened on: the forms edit expenses, so a
\* form is started only while the expenses screen is shown, never in Menu.
C21_EditOnlyFromViewing ==
  [][OpensForm => m.currentScreen = "screenExpenses"]_vars

\* C22: while a session is open no step changes the screen; handling the
\* commit ends the session on the screen it was opened on and starts
\* exactly one write command.
C22_CommitReturnsToScreen ==
  [][/\ m.editing => m'.currentScreen = m.currentScreen
     /\ \A msg \in BagToSet(msgs) :
          (msg.type = "edited" /\ Handled(msg) /\ running' = "run")
             => /\ ~m'.editing
                /\ BagCardinality(writers') = BagCardinality(writers) + 1]_vars

\* the screen a navigation key shows
Target(k) ==
  CASE k = "1" -> "screenExpenses"
    [] k = "2" -> "screenStonks"
    [] k = "3" -> "screenWatchlist"
    [] k = "b" -> "screenMenu"

\* Update handling the key k
PressKey(k) ==
  /\ running = "run"
  /\ KeyMsg(k)
  /\ UNCHANGED <<doc, watchers, writers, msgs, sinceEv, signals, extCount, loaded, faults>>

\* C23: a select key in Menu shows the selected screen and the back key in
\* a Viewing state shows the menu; a step that changes the screen changes
\* nothing else: the Snapshot, the editing flag and the error stay, and no
\* read, write, watcher or form is started.
C23_NavigationOnly ==
  /\ [](running = "run" =>
         \A k \in {"1", "2", "3", "b"} :
            (k = "b" \/ m.currentScreen = "screenMenu")
               => /\ ENABLED (PressKey(k) /\ m'.currentScreen = Target(k))
                  /\ ~ENABLED (PressKey(k) /\ m'.currentScreen # Target(k)))
  /\ [][m'.currentScreen # m.currentScreen
          => /\ m' = [m EXCEPT !.currentScreen = m'.currentScreen]
             /\ UNCHANGED <<doc, running, watchers, writers, forms, msgs, loaded>>]_vars

\* the user has selected the stonks screen from the menu while an edit was
\* open: the form, the editing flag and the Snapshot are as before
C23_Witness ==
  /\ m.currentScreen = "screenStonks"
  /\ m.editing
  /\ forms # EmptyBag
  /\ Snap(m) = loaded
  /\ BagCardinality(watchers) = 1

\* the step is the f.Save() of write command wr
Saves(wr) ==
  /\ wr.pc = "write"
  /\ CopiesIn(wr, writers') < CopiesIn(wr, writers)
  /\ CopiesIn([wr EXCEPT !.pc = "sleep", !.el = 0], writers')
       > CopiesIn([wr EXCEPT !.pc = "sleep", !.el = 0], writers)

\* a Snapshot has been read and Update has not handled it yet
SnapshotInFlight ==
  \/ \E w \in BagToSet(watchers) : w.pc = "read"
  \/ \E wr \in BagToSet(writers) : wr.pc = "read"
  \/ \E msg \in BagToSet(msgs) : msg.type = "data"

\* C24: the forced read of a commit starts only when D has elapsed since
\* its write completed, and every Snapshot delivered after a write
\* completed was read after it: when a write completes no Snapshot read
\* earlier is still on its way to Update.
C24_WriteThenReload ==
  /\ [](\A wr \in BagToSet(writers) : wr.pc = "read" => wr.el >= D)
  /\ [][(\E wr \in BagToSet(writers) : Saves(wr)) => ~SnapshotInFlight]_vars

\* C24, the forced read alone: the forced read of a commit is made by the write
\* command itself, once its write has completed and D has elapsed since,
\* and returns the workbook as it is stored at that moment.
C24_ForcedReadAfterWrite ==
  /\ [](\A wr \in BagToSet(writers) : wr.pc = "read" => wr.el >= D)
  /\ [][\A rd \in BagToSet(writers') :
          (rd.pc = "read" /\ CopiesIn(rd, writers') > CopiesIn(rd, writers))
             => \E wr \in BagToSet(writers) :
                   /\ wr.pc = "sleep"
                   /\ wr.el >= D
                   /\ rd = [wr EXCEPT !.pc = "read", !.data = readExcelData(doc)]]_vars

\* a write command has made its forced read, D after its save, and holds
\* the expenses it wrote
C24_Witness ==
  \E wr \in BagToSet(writers) :
     /\ wr.pc = "read"
     /\ wr.el >= D
     /\ wr.data = readExcelData(doc)
     /\ wr.data.expenses = wr.exp

\* C25: when the summation formula cannot be evaluated or its value is not
\* a number, the read still returns a Snapshot, with the three collections
\* loaded from the workbook and the total zero.
C25_FormulaFailureGivesZero ==
  \A msg \in BagToSet(msgs) :
     msg.cause = "formula"
        => /\ msg.type = "data"
           /\ msg.data.totalExpenses = 0
           /\ msg.data.expenses = readExpenses(doc.Expenses)
           /\ msg.data.stonks = readStonks(doc.Stonks)
           /\ msg.data.watchList = readWatchList(doc.WatchList)

\* the formula failed on a workbook whose rows 3..9 hold amounts: the
\* expenses are loaded and the total is zero
C25_Witness ==
  \E msg \in BagToSet(msgs) :
     /\ msg.cause = "formula"
     /\ SumB(doc.Expenses, 3, 9) > 0
     /\ Len(msg.data.expenses) = 3
     /\ msg.data.stonks # <<>>
     /\ msg.data.totalExpenses = 0

\* C26: a data row whose numeric field cannot be parsed is skipped: the
\* expenses read are the rows with a name and a numeric amount, the stonks
\* read are the rows with four cells and numeric change and extra.
C26_MalformedRowsSkipped ==
  \A data \in ReadBack :
     /\ Len(data.expenses)
          = Cardinality({i \in Kept(doc.Expenses, 2) : doc.Expenses[i][2].isNum})
     /\ Len(data.stonks)
          = Cardinality({i \in Kept(doc.Stonks, 4) :
                           doc.Stonks[i][2].isNum /\ doc.Stonks[i][4].isNum})

\* C30: writing back the Snapshot a read returned, unmodified, leaves the
\* workbook as it was: every element goes back to the row it was read from.
C30_WriteBackChangesNothing ==
  \A wr \in BagToSet(writers) : wr.pc = "savedBack" => doc = wr.opened

\* C27: handling a commit never indexes outside the expenses and never
\* ends the program: a commit that Update handles carries index -1 or an
\* index inside the current expenses, also after a reload made them shorter
\* while the form was open.
C27_CommitIndexInRange ==
  /\ [](running # "panic")
  /\ [][\A msg \in BagToSet(msgs) :
          (msg.type = "edited" /\ Handled(msg))
             => (msg.index = -1 \/ msg.index \in 0..(Len(m.expenses) - 1))]_vars

\* the rows in which two versions of a sheet differ
DiffRows(a, b) ==
  {i \in 1..Max(Len(a), Len(b)) : i > Len(a) \/ i > Len(b) \/ a[i] # b[i]}

\* C28: the write of a commit changes one expense row of the workbook and
\* nothing else: every other expense row and every stonks and watch-list
\* row keeps the value the workbook held just before the write, whether or
\* not the Snapshot had caught up with it.
C28_WriteTouchesOneRow ==
  [][\A wr \in BagToSet(writers) :
        Saves(wr)
           => /\ Cardinality(DiffRows(doc.Expenses, doc'.Expenses)) <= 1
              /\ doc'.Stonks = doc.Stonks
              /\ doc'.WatchList = doc.WatchList]_vars

\* the expense every form of the runs commits
Draft == CHOOSE e \in Drafts : TRUE

\* the workbook holds the committed expense in its k-th expense row
StoredAt(k) ==
  /\ Len(readExpenses(doc.Expenses)) >= k
  /\ readExpenses(doc.Expenses)[k] = Draft

\* C29: no committed edit is lost: with no other writer and no failure, a
\* committed expense that has reached the workbook stays in its row
\* whatever commands and reloads follow, and once no command is running
\* and every message has been handled the Snapshot holds the expenses of
\* the workbook.
C29_NoCommitLost ==
  /\ [][\A k \in 1..EditInputs : StoredAt(k) => StoredAt(k)']_vars
  /\ [](Quiescent => m.expenses = readExpenses(doc.Expenses))

FromWatcher(msg) == msg.from = "watch"

\* C32: read once, resubscribe: a watcher delivers one message, a Snapshot
\* or an error, and is gone with its subscription in the same step, so it
\* delivers no second one; no step delivers two watcher messages; and the
\* handling of each Snapshot or error message starts exactly one new
\* watcher.
C32_ReadOnceResubscribe ==
  /\ [][CountIf(msgs', FromWatcher) > CountIf(msgs, FromWatcher)
         => \E w \in BagToSet(watchers) : \E msg \in BagToSet(msgs') :
               /\ FromWatcher(msg)
               /\ msgs' = Add(msgs, msg)
               /\ watchers' = Del(watchers, w)]_vars
  /\ [][\A msg \in BagToSet(msgs) :
          (msg.type \in {"data", "err"} /\ Handled(msg))
             => watchers' = Add(watchers, watchExcelCmd)]_vars

\* after one save by another process and nothing else, the reload of the
\* watcher has been handled and the only watcher is a new one
C32_Witness ==
  /\ extCount = 1
  /\ faults = 0
  /\ Load = 1
  /\ loaded = readExcelData(doc)
  /\ watchers = SetToBag({watchExcelCmd})

\* the step is another process touching the workbook without writing it
OtherEvent == extCount' = extCount + 1 /\ doc' = doc

GoesToSleep ==
  \E w \in BagToSet(watchers') :
     w.pc = "sleep" /\ w.el = 0 /\ CopiesIn(w, watchers') > CopiesIn(w, watchers)

\* C33: a raw event that is neither a write nor a create changes no
\* watcher (each one keeps waiting, sleeping or reading as it was, on its
\* own subscription), adds no message and leaves the model alone; and a
\* watcher goes to its delay only in a step in which the workbook is saved.
C33_OnlyWriteOrCreateReloads ==
  /\ [][OtherEvent => watchers' = watchers /\ msgs' = msgs /\ m' = m /\ loaded' = loaded]_vars
  /\ [][GoesToSleep => sinceEv' = 0 /\ ~OtherEvent]_vars

\* another process has touched the workbook once without writing it, and
\* the watcher of Init is still waiting with nothing delivered
C33_Witness ==
  /\ extCount = 1
  /\ doc \in InitDocs
  /\ Load = 1
  /\ msgs = EmptyBag
  /\ \A w \in BagToSet(watchers) : w.pc = "wait"

\* C31: in the row-selection version the selected row is an index of the
\* expenses whenever there are expenses, so that editing the selected row
\* never reads outside the collection.
C31_SelectedRowValid ==
  Len(m.expenses) > 0 => m.selectedRow \in 0..(Len(m.expenses) - 1)

====
